---- MODULE Spec2Model ----
(***************************************************************************)
(* minidb (src/src/main.rs): an in-memory table backed by an append-only   *)
(* replay log and a whole-state snapshot.  The model keeps the file system *)
(* (directories, files as word sequences), the live Db value of the        *)
(* running process and the position of the process inside save.            *)
(*                                                                         *)
(* A file is a sequence of words.  One word stands for one fixed-width     *)
(* bincode field (a u64 length, a character, the u16 year, the u32 enum    *)
(* tag, a bool) or one path; strings are length-prefixed as in bincode, so *)
(* decoding a file follows the framing and fails on a short read.          *)
(***************************************************************************)
EXTENDS Integers, Sequences, FiniteSets, TLC

VARIABLES
    dirs,     \* the directories that exist
    files,    \* path -> content, for the files that exist
    pc,       \* "down" (no process), "idle" (store live, between calls),
              \* "save_ser", "save_log", "save_drop" (inside save)
    db,       \* the Db value of the running process (NoDb when down)
    buf,      \* BufWriter contents of the save in progress
    op,       \* the last completed call
    ret,      \* its outcome: "ok", "err", "panic", "some", "none"
    got,      \* the value handed back by the last get
    asked,    \* history: the key of the last get (<<>> after any other call)
    fault,    \* the I/O failure injected into the last call ("none" when none)
    mem,      \* history: the table in memory when the process last ended, kept
              \* until the next run completes a call
    adds,     \* history: the add calls since the log was last created or reset
    torn,     \* history: how many of them preceded the first torn record (-1: none)
    pure,     \* history: only load_or_new, add and get were called so far
    saves,    \* history: completed saves since the last add (counted up to 2)
    pre,      \* history: the table when the first of them began
    failed,   \* history: a write was torn or an I/O failure was met
    home      \* history: the directory handed to the last load_or_new (0: none yet)

vars ==
    <<dirs, files, pc, db, buf, op, ret, got, asked, fault, mem, adds, torn, pure, saves,
      pre, failed, home>>

----------------------------------------------------------------------------
(* Bounds of the model *)

MaxAdds == 2          \* add calls between two resets of the log

(* Program constants *)

REPLAY_LOG == 1       \* the file name "replay.log"
DB_SNAPSHOT == 2      \* the file name "db.snapshot"
BufCap == 8           \* BufWriter capacity, in words

Dirs == {1}
DB_DIR == 1

Dynamic == 0
Static == 1

Keys == {<<1>>, <<2>>}

Values ==
    { [creator |-> <<1>>, year |-> 2, typing |-> Static],
      [creator |-> <<>>,  year |-> 1, typing |-> Dynamic] }

NoValue == [creator |-> <<>>, year |-> 0, typing |-> Dynamic]

EmptyMap == [k \in {} |-> NoValue]

\* PathBuf::join
PathJoin(dir, name) == dir * 10 + name

\* HashMap::insert
Insert(m, k, v) == [x \in (DOMAIN m) \cup {k} |-> IF x = k THEN v ELSE m[x]]

\* HashMap::get
Lookup(m, k) == IF k \in DOMAIN m THEN m[k] ELSE NoValue

Db_new(dir) ==
    [ dir            |-> dir,
      replay_log     |-> PathJoin(dir, REPLAY_LOG),
      db_snapshot    |-> PathJoin(dir, DB_SNAPSHOT),
      data           |-> EmptyMap,
      enable_logging |-> TRUE ]

NoDb ==
    [ dir |-> 0, replay_log |-> 0, db_snapshot |-> 0,
      data |-> EmptyMap, enable_logging |-> FALSE ]

----------------------------------------------------------------------------
(* bincode encoding of the log records and of the snapshot *)

EncString(s) == <<Len(s)>> \o s

EncValue(v) == EncString(v.creator) \o <<v.year, v.typing>>

\* the pair (&key, &value) written by add
EncPair(k, v) == EncString(k) \o EncValue(v)

EncBool(b) == IF b THEN <<1>> ELSE <<0>>

\* an enumeration of a finite set (the iteration order of the HashMap)
RECURSIVE SetToSeq(_)
SetToSeq(S) ==
    IF S = {} THEN <<>>
    ELSE LET x == CHOOSE y \in S : TRUE IN <<x>> \o SetToSeq(S \ {x})

RECURSIVE EncEntries(_, _)
EncEntries(m, ks) ==
    IF ks = <<>> THEN <<>>
    ELSE EncPair(Head(ks), m[Head(ks)]) \o EncEntries(m, Tail(ks))

EncMap(m) == <<Cardinality(DOMAIN m)>> \o EncEntries(m, SetToSeq(DOMAIN m))

\* the whole Db, field by field, as #[derive(Serialize)] writes it
EncDb(d) ==
    <<d.dir, d.replay_log, d.db_snapshot>> \o EncMap(d.data) \o EncBool(d.enable_logging)

\* a length-prefixed string read at position i of b
DecString(b, i) ==
    IF i > Len(b) THEN [ok |-> FALSE, val |-> <<>>, next |-> i]
    ELSE IF i + b[i] > Len(b) THEN [ok |-> FALSE, val |-> <<>>, next |-> i]
    ELSE [ok |-> TRUE, val |-> SubSeq(b, i + 1, i + b[i]), next |-> i + b[i] + 1]

\* a (String, LanguageInfo) pair read at position i of b
DecPair(b, i) ==
    LET Info(k, c, y, t) ==
            IF k.ok /\ c.ok /\ t <= Len(b) /\ b[t] \in {Dynamic, Static}
            THEN [ ok |-> TRUE, key |-> k.val,
                   value |-> [creator |-> c.val, year |-> b[y], typing |-> b[t]],
                   next |-> t + 1 ]
            ELSE [ ok |-> FALSE, key |-> <<>>, value |-> NoValue, next |-> i ]
        Creator(k, c) == Info(k, c, c.next, c.next + 1)
        Name(k) == Creator(k, DecString(b, k.next))
    IN  Name(DecString(b, i))

\* the encodings of the pairs rs = <<key, value>>, ... one after the other
RECURSIVE EncAll(_)
EncAll(rs) ==
    IF rs = <<>> THEN <<>>
    ELSE EncPair(Head(rs)[1], Head(rs)[2]) \o EncAll(Tail(rs))

\* the records of b from position i that decode, up to the first that does not
RECURSIVE Records(_, _)
Records(b, i) ==
    LET r == DecPair(b, i)
    IN  IF r.ok THEN <<(<<r.key, r.value>>)>> \o Records(b, r.next) ELSE <<>>

\* n map entries read from position i of b into m
RECURSIVE DecEntries(_, _, _, _)
DecEntries(b, i, n, m) ==
    IF n = 0 THEN [ok |-> TRUE, map |-> m, next |-> i]
    ELSE LET Entry(p) ==
                 IF p.ok THEN DecEntries(b, p.next, n - 1, Insert(m, p.key, p.value))
                 ELSE [ok |-> FALSE, map |-> EmptyMap, next |-> i]
         IN  Entry(DecPair(b, i))

\* bincode::deserialize_from of a Db
DecDb(b) ==
    IF Len(b) < 4 THEN [ok |-> FALSE, db |-> NoDb]
    ELSE LET Fields(e) ==
                 IF e.ok /\ e.next <= Len(b) /\ b[e.next] \in {0, 1}
                 THEN [ ok |-> TRUE,
                        db |-> [ dir |-> b[1], replay_log |-> b[2], db_snapshot |-> b[3],
                                 data |-> e.map, enable_logging |-> (b[e.next] = 1) ] ]
                 ELSE [ok |-> FALSE, db |-> NoDb]
         IN  Fields(DecEntries(b, 5, b[4], EmptyMap))

----------------------------------------------------------------------------
(* The file system *)

PathDir(p) == p \div 10

is_file(fl, p) == p \in DOMAIN fl

Content(fl, p) == IF is_file(fl, p) THEN fl[p] ELSE <<>>

\* File::create: the file exists and is empty afterwards
FileCreate(fl, p) == [q \in (DOMAIN fl) \cup {p} |-> IF q = p THEN <<>> ELSE fl[q]]

\* a faulty variant: the file is opened without append(true): w replaces its content
FileOverwrite(fl, p, w) == [q \in (DOMAIN fl) \cup {p} |-> IF q = p THEN w ELSE fl[q]]

\* a write of w at the end of p, creating p when it does not exist
FileAppend(fl, p, w) ==
    [q \in (DOMAIN fl) \cup {p} |-> IF q = p THEN Content(fl, p) \o w ELSE fl[q]]

\* how many of n words written one by one through a BufWriter have reached
\* the file when the last one has been accepted (the rest is buffered)
Flushed(n) == IF n = 0 THEN 0 ELSE ((n - 1) \div BufCap) * BufCap

----------------------------------------------------------------------------
(* Db::add.  f is the I/O failure met ("none", "open", "write"), n the     *)
(* number of words of the record that reach the file when the write fails. *)

add(self, ds, fl, key, value, f, n) ==
    LET Log(rec, inserted) ==
            IF ~self.enable_logging
            THEN [panic |-> FALSE, db |-> inserted, files |-> fl]
            ELSE IF f = "open" \/ PathDir(self.replay_log) \notin ds
            THEN [panic |-> TRUE, db |-> self, files |-> fl]
            ELSE IF f = "write"
            THEN [ panic |-> FALSE, db |-> inserted,
                   files |-> FileAppend(fl, self.replay_log, SubSeq(rec, 1, n)) ]
            ELSE [ panic |-> FALSE, db |-> inserted,
                   files |-> FileAppend(fl, self.replay_log, rec) ]
    IN  Log(EncPair(key, value), [self EXCEPT !.data = Insert(self.data, key, value)])

\* a faulty variant: the loop is left after the first record
ReplayOnce(self, ds, fl, b, i) ==
    LET Step(res) ==
            IF res.ok
            THEN [ db |-> add(self, ds, fl, res.key, res.value, "none", 0).db,
                   files |-> fl ]
            ELSE [db |-> self, files |-> fl]
    IN  Step(DecPair(b, i))

\* the loop of Db::replay from position i of the log b: each decoded pair is
\* handed to add; the first failure to decode ends the loop
RECURSIVE ReplayLoop(_, _, _, _, _)
ReplayLoop(self, ds, fl, b, i) ==
    LET Added(a, next) == ReplayLoop(a.db, ds, a.files, b, next)
        Step(res) ==
            IF res.ok
            THEN Added(add(self, ds, fl, res.key, res.value, "none", 0), res.next)
            ELSE [db |-> self, files |-> fl]
    IN  Step(DecPair(b, i))

\* a faulty variant: a record that does not decode before the end of the file is an
\* error instead of the end of the loop
replayStrict(self, ds, fl, f) ==
    LET Looped(l) ==
            [ ok |-> TRUE,
              db |-> [l.db EXCEPT !.enable_logging = self.enable_logging],
              files |-> l.files ]
        Off(off) ==
            IF f = "open_log" \/ ~is_file(fl, self.replay_log)
            THEN [ok |-> FALSE, db |-> off, files |-> fl]
            ELSE IF EncAll(Records(fl[self.replay_log], 1)) # fl[self.replay_log]
            THEN [ok |-> FALSE, db |-> off, files |-> fl]
            ELSE Looped(ReplayLoop(off, ds, fl, fl[self.replay_log], 1))
    IN  Off([self EXCEPT !.enable_logging = FALSE])

\* a faulty variant: enable_logging is left as it is while the log is replayed
replayLogging(self, ds, fl, f) ==
    LET Looped(l) == [ok |-> TRUE, db |-> l.db, files |-> l.files]
    IN  IF f = "open_log" \/ ~is_file(fl, self.replay_log)
        THEN [ok |-> FALSE, db |-> self, files |-> fl]
        ELSE Looped(ReplayLoop(self, ds, fl, fl[self.replay_log], 1))

\* Db::replay
replay(self, ds, fl, f) ==
    LET prev_logging == self.enable_logging
        Looped(l) ==
            [ ok |-> TRUE,
              db |-> [l.db EXCEPT !.enable_logging = prev_logging],
              files |-> l.files ]
        Off(off) ==
            IF f = "open_log" \/ ~is_file(fl, self.replay_log)
            THEN [ok |-> FALSE, db |-> off, files |-> fl]
            ELSE Looped(ReplayLoop(off, ds, fl, fl[self.replay_log], 1))
    IN  Off([self EXCEPT !.enable_logging = FALSE])

is_db_dir(ds, fl, dir) == dir \in ds /\ is_file(fl, PathJoin(dir, REPLAY_LOG))

\* a faulty variant: a snapshot that cannot be read is passed over: the log is
\* replayed against an empty Db
restoreOrEmpty(ds, fl, dir, f) ==
    LET db_snapshot == PathJoin(dir, DB_SNAPSHOT)
        Replayed(r) ==
            [ok |-> r.ok, db |-> IF r.ok THEN r.db ELSE NoDb, dirs |-> ds, files |-> r.files]
        Restored(loaded) ==
            Replayed(replay(IF is_file(fl, db_snapshot) /\ loaded.ok /\ f = "none"
                            THEN loaded.db ELSE Db_new(dir),
                            ds, fl, "none"))
    IN  Restored(DecDb(Content(fl, db_snapshot)))

\* Db::restore_and_replay
restore_and_replay(ds, fl, dir, f) ==
    LET db_snapshot == PathJoin(dir, DB_SNAPSHOT)
        Replayed(r) ==
            [ok |-> r.ok, db |-> IF r.ok THEN r.db ELSE NoDb, dirs |-> ds, files |-> r.files]
        Restored(loaded) ==
            IF is_file(fl, db_snapshot)
               /\ (f \in {"open_snapshot", "read_snapshot"} \/ ~loaded.ok)
            THEN [ok |-> FALSE, db |-> NoDb, dirs |-> ds, files |-> fl]
            ELSE Replayed(replay(IF is_file(fl, db_snapshot) THEN loaded.db ELSE Db_new(dir),
                                 ds, fl, f))
    IN  Restored(DecDb(Content(fl, db_snapshot)))

\* a faulty variant: the log file is created with the directory
createEager(ds, fl, dir, f) ==
    [ ok |-> TRUE, db |-> Db_new(dir), dirs |-> ds \cup {dir},
      files |-> FileCreate(fl, PathJoin(dir, REPLAY_LOG)) ]

\* Db::create
create(ds, fl, dir, f) ==
    IF f = "create_dir"
    THEN [ok |-> FALSE, db |-> NoDb, dirs |-> ds, files |-> fl]
    ELSE [ok |-> TRUE, db |-> Db_new(dir), dirs |-> ds \cup {dir}, files |-> fl]

\* Db::load_or_new
load_or_new(ds, fl, dir, f) ==
    IF is_db_dir(ds, fl, dir) THEN restore_and_replay(ds, fl, dir, f)
    ELSE create(ds, fl, dir, f)

----------------------------------------------------------------------------
(* The calls of the surrounding program.  Each action is one whole call,   *)
(* except save, whose four steps are taken one after the other.            *)

Init ==
    /\ dirs = {}
    /\ files = [p \in {} |-> <<>>]
    /\ pc = "down"
    /\ home = 0
    /\ db = NoDb
    /\ buf = <<>>
    /\ op = "start"
    /\ ret = "ok"
    /\ got = NoValue
    /\ asked = <<>>
    /\ fault = "none"
    /\ mem = EmptyMap
    /\ adds = <<>>
    /\ torn = -1
    /\ pure = TRUE
    /\ saves = 0
    /\ pre = EmptyMap
    /\ failed = FALSE

\* the process ends by a panic: the Db value is gone
Panicked(call) ==
    /\ pc' = "down"
    /\ db' = NoDb
    /\ buf' = <<>>
    /\ mem' = db.data
    /\ op' = call
    /\ ret' = "panic"
    /\ got' = NoValue
    /\ asked' = <<>>

LoadWith(dir, f) ==
    /\ f # "none" => ~failed
    /\ failed' = (failed \/ f # "none")
    /\ pc = "down"
    /\ home' = dir
    /\ \E r \in {load_or_new(dirs, files, dir, f)} :
           /\ dirs' = r.dirs
           /\ files' = r.files
           /\ db' = r.db
           /\ pc' = IF r.ok THEN "idle" ELSE "down"
           /\ ret' = IF r.ok THEN "ok" ELSE "err"
    /\ op' = "load"
    /\ got' = NoValue
    /\ asked' = <<>>
    /\ fault' = f
    /\ UNCHANGED <<buf, mem, adds, torn, pure, saves, pre>>

\* Db::load_or_new(dir), as main calls it at the start of a run
LoadOrNew(dir) == LoadWith(dir, "none")

AddWith(key, value, f, n) ==
    /\ f # "none" => ~failed
    /\ failed' = (failed \/ f # "none")
    /\ pc = "idle"
    /\ home' = home
    /\ Len(adds) < MaxAdds
    /\ fault' = f
    /\ \E a \in {add(db, dirs, files, key, value, f, n)} :
           IF a.panic
           THEN /\ Panicked("add")
                /\ UNCHANGED <<dirs, files, adds, torn, pure, saves, pre>>
           ELSE /\ db' = a.db
                /\ files' = a.files
                /\ op' = "add"
                /\ ret' = "ok"
                /\ got' = NoValue
                /\ asked' = <<>>
                /\ adds' = Append(adds, <<key, value>>)
                /\ torn' = IF f = "write" /\ torn = -1 THEN Len(adds) ELSE torn
                /\ saves' = 0
                /\ pre' = EmptyMap
                /\ mem' = EmptyMap
                /\ UNCHANGED <<dirs, pc, buf, pure>>

\* db.add(key, value)
Add(key, value) == AddWith(key, value, "none", 0)

\* a faulty variant: the lookup goes through the entry API and leaves a default
\* value under a key that was absent
GetOrInsert(key) ==
    /\ failed' = failed
    /\ pc = "idle"
    /\ home' = home
    /\ got' = Lookup(db.data, key)
    /\ asked' = key
    /\ ret' = IF key \in DOMAIN db.data THEN "some" ELSE "none"
    /\ op' = "get"
    /\ fault' = "none"
    /\ mem' = EmptyMap
    /\ db' = [db EXCEPT !.data = IF key \in DOMAIN db.data THEN db.data
                                  ELSE Insert(db.data, key, NoValue)]
    /\ UNCHANGED <<dirs, files, pc, buf, adds, torn, pure, saves, pre>>

\* db.get(key)
Get(key) ==
    /\ failed' = failed
    /\ pc = "idle"
    /\ home' = home
    /\ got' = Lookup(db.data, key)
    /\ asked' = key
    /\ ret' = IF key \in DOMAIN db.data THEN "some" ELSE "none"
    /\ op' = "get"
    /\ fault' = "none"
    /\ mem' = EmptyMap
    /\ UNCHANGED <<dirs, files, pc, db, buf, adds, torn, pure, saves, pre>>

\* save, line 135: File::create(&self.db_snapshot).unwrap()
SaveCreateWith(f) ==
    /\ f # "none" => ~failed
    /\ failed' = (failed \/ f # "none")
    /\ pc = "idle"
    /\ home' = home
    /\ fault' = f
    /\ pure' = FALSE
    /\ IF f = "create" \/ PathDir(db.db_snapshot) \notin dirs
       THEN /\ Panicked("save")
            /\ UNCHANGED <<dirs, files, adds, torn, saves, pre>>
       ELSE /\ files' = FileCreate(files, db.db_snapshot)
            /\ pc' = "save_ser"
            /\ buf' = <<>>
            /\ pre' = IF saves = 0 THEN db.data ELSE pre
            /\ UNCHANGED <<dirs, db, op, ret, got, asked, mem, adds, torn, saves>>

SaveCreate == SaveCreateWith("none")

\* save, lines 136-137: the Db is serialized into the BufWriter; the words
\* that do not fit its buffer are written to the snapshot file
SaveSerialize ==
    /\ failed' = failed
    /\ pc = "save_ser"
    /\ home' = home
    /\ LET bytes == EncDb(db)
           w == Flushed(Len(bytes))
       IN  /\ files' = FileAppend(files, db.db_snapshot, SubSeq(bytes, 1, w))
           /\ buf' = SubSeq(bytes, w + 1, Len(bytes))
    /\ pc' = "save_log"
    /\ UNCHANGED <<dirs, db, op, ret, got, asked, fault, mem, adds, torn, pure, saves, pre>>

\* a faulty variant: the log file is not reset
SaveKeepLog(f) ==
    /\ pc = "save_log"
    /\ home' = home
    /\ f = "none"
    /\ pc' = "save_drop"
    /\ UNCHANGED <<dirs, files, db, buf, op, ret, got, asked, fault, mem, adds, torn, pure,
                   saves, pre, failed>>

\* save, line 138: let _ = File::create(&self.replay_log)
SaveResetLogWith(f) ==
    /\ f # "none" => ~failed
    /\ failed' = (failed \/ f # "none")
    /\ pc = "save_log"
    /\ home' = home
    /\ IF f = "reset_log" \/ PathDir(db.replay_log) \notin dirs
       THEN UNCHANGED <<files, adds, torn>>
       ELSE /\ files' = FileCreate(files, db.replay_log)
            /\ adds' = <<>>
            /\ torn' = -1
    /\ fault' = IF f = "none" THEN fault ELSE f
    /\ pc' = "save_drop"
    /\ UNCHANGED <<dirs, db, buf, op, ret, got, asked, mem, pure, saves, pre>>

SaveResetLog == SaveResetLogWith("none")

\* a faulty variant: what the BufWriter holds is dropped unwritten
SaveDropUnwritten(f, n) ==
    /\ pc = "save_drop"
    /\ home' = home
    /\ f = "none"
    /\ buf' = <<>>
    /\ pc' = "idle"
    /\ op' = "save"
    /\ ret' = "ok"
    /\ got' = NoValue
    /\ asked' = <<>>
    /\ saves' = IF saves < 2 THEN saves + 1 ELSE 2
    /\ mem' = EmptyMap
    /\ UNCHANGED <<dirs, files, db, fault, adds, torn, pure, pre, failed>>

\* save, line 139: buf_writer goes out of scope and writes what it holds
\* (n words of it when the write fails); save returns
SaveDropWith(f, n) ==
    /\ f # "none" => ~failed
    /\ failed' = (failed \/ f # "none")
    /\ pc = "save_drop"
    /\ home' = home
    /\ files' = FileAppend(files, db.db_snapshot,
                           IF f = "flush" THEN SubSeq(buf, 1, n) ELSE buf)
    /\ buf' = <<>>
    /\ fault' = IF f = "none" THEN fault ELSE f
    /\ pc' = "idle"
    /\ op' = "save"
    /\ ret' = "ok"
    /\ got' = NoValue
    /\ asked' = <<>>
    /\ saves' = IF saves < 2 THEN saves + 1 ELSE 2
    /\ mem' = EmptyMap
    /\ UNCHANGED <<dirs, db, adds, torn, pure, pre>>

SaveDrop == SaveDropWith("none", 0)

\* the run ends (main returns, the Db value is dropped)
Exit ==
    /\ failed' = failed
    /\ pc = "idle"
    /\ home' = home
    /\ pc' = "down"
    /\ db' = NoDb
    /\ mem' = db.data
    /\ op' = "exit"
    /\ ret' = "ok"
    /\ got' = NoValue
    /\ asked' = <<>>
    /\ fault' = "none"
    /\ UNCHANGED <<dirs, files, buf, adds, torn, pure, saves, pre>>

\* the calls that write: a run of the program without its lookups
Run ==
    \/ \E dir \in Dirs : LoadOrNew(dir)
    \/ \E key \in Keys, value \in Values : Add(key, value)
    \/ SaveCreate
    \/ SaveSerialize
    \/ SaveResetLog
    \/ SaveDrop
    \/ Exit

Next ==
    \/ Run
    \/ \E key \in Keys : Get(key)

Spec == Init /\ [][Next]_vars

\* db.replay() called on the live store (replay is a pub fn)
ReplayCall ==
    /\ failed' = failed
    /\ pc = "idle"
    /\ home' = home
    /\ \E r \in {replay(db, dirs, files, "none")} :
           /\ db' = r.db
           /\ files' = r.files
           /\ ret' = IF r.ok THEN "ok" ELSE "err"
    /\ op' = "replay"
    /\ got' = NoValue
    /\ asked' = <<>>
    /\ fault' = "none"
    /\ mem' = EmptyMap
    /\ pure' = FALSE
    /\ UNCHANGED <<dirs, pc, buf, adds, torn, saves, pre>>

NextReplay ==
    \/ Next
    \/ ReplayCall

SpecReplay == Init /\ [][NextReplay]_vars

----------------------------------------------------------------------------
(* The process is killed inside save or inside add.  Nothing is written by *)
(* the end of the process; what the BufWriter holds is lost.  (A process   *)
(* killed between two calls leaves what Exit leaves.)                      *)

Killed ==
    /\ pc' = "down"
    /\ db' = NoDb
    /\ buf' = <<>>
    /\ mem' = db.data
    /\ op' = "crash"
    /\ ret' = "ok"
    /\ got' = NoValue
    /\ asked' = <<>>
    /\ fault' = "none"
    /\ pure' = FALSE

Crash ==
    /\ failed' = failed
    /\ pc \in {"save_ser", "save_log", "save_drop"}
    /\ home' = home
    /\ Killed
    /\ UNCHANGED <<dirs, files, adds, torn, saves, pre>>

\* the process is killed inside add while the record is being written: the
\* first n words of it are in the log file
CrashInAdd(key, value, n) ==
    /\ pc = "idle"
    /\ home' = home
    /\ db.enable_logging
    /\ PathDir(db.replay_log) \in dirs
    /\ ~failed
    /\ failed' = TRUE
    /\ files' = FileAppend(files, db.replay_log, SubSeq(EncPair(key, value), 1, n))
    /\ torn' = IF torn = -1 THEN Len(adds) ELSE torn
    /\ Killed
    /\ UNCHANGED <<dirs, adds, saves, pre>>

NextCrash ==
    \/ Run
    \/ Crash
    \/ \E key \in Keys, value \in Values :
          \E n \in 1..(Len(EncPair(key, value)) - 1) : CrashInAdd(key, value, n)

SpecCrash == Init /\ [][NextCrash]_vars

----------------------------------------------------------------------------
(* I/O failures: a file that cannot be opened or created, a write or a     *)
(* read that fails.  SpecCrash and SpecFault are the behaviours with at    *)
(* most one torn write or I/O failure (failed records it).                 *)

LoadFault(dir, f) ==
    /\ IF is_db_dir(dirs, files, dir)
       THEN \/ f = "open_log"
            \/ f \in {"open_snapshot", "read_snapshot"} /\ is_file(files, PathJoin(dir, DB_SNAPSHOT))
       ELSE f = "create_dir"
    /\ LoadWith(dir, f)

AddFault(key, value, f, n) ==
    /\ db.enable_logging
    /\ \/ f = "open" /\ n = 0
       \/ f = "write" /\ n < Len(EncPair(key, value))
    /\ AddWith(key, value, f, n)

SaveCreateFault == SaveCreateWith("create")

SaveResetLogFault == SaveResetLogWith("reset_log")

SaveDropFault(n) == n < Len(buf) /\ SaveDropWith("flush", n)

NextFault ==
    \/ Run
    \/ \E dir \in Dirs :
          \E f \in {"open_snapshot", "read_snapshot", "open_log", "create_dir"} :
              LoadFault(dir, f)
    \/ \E key \in Keys, value \in Values :
          \E f \in {"open", "write"} :
              \E n \in 0..(Len(EncPair(key, value)) - 1) : AddFault(key, value, f, n)
    \/ SaveCreateFault
    \/ SaveResetLogFault
    \/ \E n \in 0..(BufCap - 1) : SaveDropFault(n)

SpecFault == Init /\ [][NextFault]_vars

----------------------------------------------------------------------------
(* Between two runs the store directory is copied or moved to another      *)
(* place, and the next run is pointed at either place.                     *)

OTHER_DIR == 2

AllDirs == {DB_DIR, OTHER_DIR}

FileNames == {REPLAY_LOG, DB_SNAPSHOT}

\* the files of directory from, under directory to
Moved(fl, from, to) ==
    { PathJoin(to, name) : name \in {x \in FileNames : is_file(fl, PathJoin(from, x))} }

Relocated ==
    /\ pc' = "down"
    /\ home' = home
    /\ ret' = "ok"
    /\ got' = NoValue
    /\ asked' = <<>>
    /\ fault' = "none"
    /\ UNCHANGED <<db, buf, mem, adds, torn, pure, saves, pre, failed>>

\* cp -r from to
CopyDir(from, to) ==
    /\ pc = "down"
    /\ from \in dirs /\ to \notin dirs
    /\ dirs' = dirs \cup {to}
    /\ files' = [ q \in (DOMAIN files) \cup Moved(files, from, to) |->
                    IF PathDir(q) = to THEN files[PathJoin(from, q % 10)] ELSE files[q] ]
    /\ op' = "copy"
    /\ Relocated

\* mv from to
MoveDir(from, to) ==
    /\ pc = "down"
    /\ from \in dirs /\ to \notin dirs
    /\ dirs' = (dirs \ {from}) \cup {to}
    /\ files' = [ q \in {x \in DOMAIN files : PathDir(x) # from} \cup Moved(files, from, to) |->
                    IF PathDir(q) = to THEN files[PathJoin(from, q % 10)] ELSE files[q] ]
    /\ op' = "move"
    /\ Relocated

\* an add while the log file it appends to holds fewer than MaxAdds records
AddBounded(key, value) ==
    /\ Len(Records(Content(files, db.replay_log), 1)) < MaxAdds
    /\ Add(key, value)

\* runs over the two places; the adds are of one key, and the directory goes
\* from DB_DIR to OTHER_DIR
NextMove ==
    \/ \E dir \in AllDirs : LoadOrNew(dir)
    \/ \E value \in Values : AddBounded(<<1>>, value)
    \/ SaveCreate
    \/ SaveSerialize
    \/ SaveResetLog
    \/ SaveDrop
    \/ Exit
    \/ CopyDir(DB_DIR, OTHER_DIR)
    \/ MoveDir(DB_DIR, OTHER_DIR)

SpecMove == Init /\ [][NextMove]_vars

----------------------------------------------------------------------------
(* What the claims speak of *)

LogPath == PathJoin(DB_DIR, REPLAY_LOG)

SnapPath == PathJoin(DB_DIR, DB_SNAPSHOT)

LogFile == Content(files, LogPath)

\* the table stored in the snapshot file, the empty table when there is none
SnapTable ==
    IF is_file(files, SnapPath) THEN DecDb(files[SnapPath]).db.data ELSE EmptyMap

SnapOk == is_file(files, SnapPath) => DecDb(files[SnapPath]).ok

\* the pairs rs = <<key, value>>, ... put into table m one after the other
RECURSIVE ApplyAll(_, _)
ApplyAll(rs, m) ==
    IF rs = <<>> THEN m
    ELSE ApplyAll(Tail(rs), Insert(m, Head(rs)[1], Head(rs)[2]))

\* the last value added under key k in rs
LastOf(rs, k) ==
    LET hits == {i \in 1..Len(rs) : rs[i][1] = k}
    IN  rs[CHOOSE i \in hits : \A j \in hits : j <= i][2]

----------------------------------------------------------------------------
\* C1: on a directory that was fresh, after add calls only (no save), a
\* restart succeeds and hands back the table that the same adds, applied in
\* order to an empty table, build.
C1_RoundTrip ==
    (op = "load" /\ pure) => (ret = "ok" /\ db.data = ApplyAll(adds, EmptyMap))

C1_Witness ==
    /\ op = "load" /\ pure /\ ret = "ok"
    /\ Len(adds) = 2
    /\ Cardinality(DOMAIN db.data) = 2

\* C2: a restart hands back the table the process held when it ended; and
\* when save has just returned the log file is empty and the table of the
\* snapshot file alone is the table in memory.
C2_Compaction ==
    /\ op = "load" => (ret = "ok" /\ db.data = mem)
    /\ (op = "save" /\ pc = "idle") =>
          /\ is_file(files, LogPath) /\ LogFile = <<>>
          /\ is_file(files, SnapPath) /\ DecDb(files[SnapPath]).ok
          /\ SnapTable = db.data

\* add(A); save(); add(A); add(B); restart
C2_Witness ==
    /\ op = "load" /\ ret = "ok"
    /\ Cardinality(DOMAIN SnapTable) = 1
    /\ Len(adds) = 2
    /\ Cardinality(DOMAIN db.data) = 2

\* C3: between completed calls the table in memory is the table of the
\* snapshot file (the empty table without one) with every record of the log
\* file applied in file order.
C3_StoreInvariant ==
    pc = "idle" => db.data = ApplyAll(Records(LogFile, 1), SnapTable)

\* C4: the log file holds exactly the records of the add calls made since it
\* was created or reset, one per call and in call order; the table holds, for
\* each key added, the value of the latest add, also after a restart.
C4_LastWriteWins ==
    /\ LogFile = EncAll(adds)
    /\ Records(LogFile, 1) = adds
    /\ pc = "idle" =>
          \A i \in 1..Len(adds) :
              /\ adds[i][1] \in DOMAIN db.data
              /\ db.data[adds[i][1]] = LastOf(adds, adds[i][1])

\* add(X, v1); add(X, v2); restart
C4_Witness ==
    /\ op = "load" /\ ret = "ok"
    /\ Len(adds) = 2
    /\ adds[1][1] = adds[2][1]
    /\ adds[1][2] # adds[2][2]
    /\ db.data[adds[1][1]] = adds[2][2]

\* C5: after one save and after a second one with no add in between, the
\* log file is empty and a restart hands back the table held before the
\* first of the saves.
C5_SaveTwice ==
    /\ (op = "save" /\ pc = "idle" /\ saves >= 1) =>
          \E r \in {load_or_new(dirs, files, DB_DIR, "none")} :
              /\ r.ok /\ r.db.data = pre
              /\ is_file(files, LogPath) /\ LogFile = <<>>
              /\ db.data = pre
    /\ (op = "load" /\ saves >= 1 /\ adds = <<>>) => (ret = "ok" /\ db.data = pre)

C5_Witness ==
    /\ op = "load" /\ ret = "ok" /\ saves = 2
    /\ Cardinality(DOMAIN pre) = 2
    /\ db.data = pre

\* C6, as claimed: load_or_new on a directory without a log file succeeds
\* with an empty table, makes the directory exist and creates no file; the
\* log file first appears in an add, the snapshot file in a save.
FreshLoad ==
    (pc = "down" /\ op' = "load" /\ ~is_file(files, LogPath)) =>
        /\ ret' = "ok" /\ pc' = "idle"
        /\ db'.data = EmptyMap
        /\ DB_DIR \in dirs'
        /\ files' = files

SnapshotAppearsInSave ==
    (~is_file(files, SnapPath) /\ is_file(files', SnapPath)) =>
        (pc = "idle" /\ pc' = "save_ser")

C6_AsClaimed ==
    [][ /\ FreshLoad
        /\ (~is_file(files, LogPath) /\ is_file(files', LogPath)) => op' = "add"
        /\ SnapshotAppearsInSave ]_vars

\* C6, amended: the log file first appears in the first logged add or in the
\* first save (which creates it empty), whichever comes first.
C6_FreshDirectory ==
    [][ /\ FreshLoad
        /\ (~is_file(files, LogPath) /\ is_file(files', LogPath)) =>
              \/ op' = "add" /\ db.enable_logging /\ LogFile' = EncPair(adds'[1][1], adds'[1][2])
              \/ pc = "save_log" /\ LogFile' = <<>>
        /\ SnapshotAppearsInSave ]_vars

\* a store saved before any add: both files exist, the table is empty
C6_Witness ==
    /\ op = "save" /\ pc = "idle"
    /\ is_file(files, LogPath) /\ is_file(files, SnapPath)
    /\ db.data = EmptyMap

\* the records appended whole before the first torn one
Whole == SubSeq(adds, 1, torn)

\* the log file is the whole records followed by a proper, non-empty prefix
\* of one more record
TruncatedTail ==
    /\ torn >= 0
    /\ \E key \in Keys, value \in Values :
          \E n \in 1..(Len(EncPair(key, value)) - 1) :
              LogFile = EncAll(Whole) \o SubSeq(EncPair(key, value), 1, n)

\* the record at the place of the first torn write does not decode
TornUndecodable ==
    /\ torn >= 0
    /\ ~DecPair(LogFile, Len(EncAll(Whole)) + 1).ok

Loaded == op = "load" /\ pc \in {"idle", "down"}

\* C7: when the log file is n whole records followed by a truncated one and
\* the snapshot file (if any) is readable, load_or_new succeeds and the table
\* is the snapshot's table with exactly the n records applied in order; and
\* whenever the record at the torn place does not decode, nothing that
\* follows it in the file is applied.
C7_TailTolerance ==
    /\ (Loaded /\ TruncatedTail /\ SnapOk) =>
          (ret = "ok" /\ db.data = ApplyAll(Whole, SnapTable))
    /\ (Loaded /\ TornUndecodable /\ SnapOk) =>
          (ret = "ok" /\ db.data = ApplyAll(Whole, SnapTable))

\* two whole records, then a torn one, then a restart
C7_Witness ==
    /\ Loaded /\ ret = "ok"
    /\ TruncatedTail
    /\ torn = 2
    /\ Cardinality(DOMAIN db.data) = 2

\* C8: every store handed back by load_or_new has enable_logging = TRUE.
C8_LoggingEnabled ==
    (Loaded /\ ret = "ok") => db.enable_logging

\* recovery meets a snapshot file that cannot be opened or read or does not
\* decode, or a log file that cannot be opened
RecoveryFails ==
    /\ is_db_dir(dirs, files, DB_DIR)
    /\ \/ fault' = "open_log"
       \/ /\ is_file(files, SnapPath)
          /\ \/ fault' \in {"open_snapshot", "read_snapshot"}
             \/ ~DecDb(files[SnapPath]).ok

\* C9: in that case load_or_new returns an error: no store is produced, the
\* process goes on, and no file or directory is changed.
C9_RecoveryErrors ==
    [][ (pc = "down" /\ op' = "load" /\ RecoveryFails) =>
            /\ ret' = "err"
            /\ pc' = "down" /\ db' = NoDb
            /\ files' = files /\ dirs' = dirs ]_vars

\* a snapshot file that does not decode has made load_or_new return an error
C9_Witness ==
    /\ Loaded /\ ret = "err" /\ fault = "none"
    /\ is_file(files, SnapPath) /\ ~DecDb(files[SnapPath]).ok
    /\ is_file(files, LogPath)

\* C10: whatever failure its log append meets, add returns to its caller and
\* the table maps the key to the value.
C10_AddNeverFails ==
    (op = "add" /\ pc \in {"idle", "down"} /\ fault \in {"open", "write"}) =>
        /\ ret = "ok" /\ pc = "idle"
        /\ Len(adds) > 0
        /\ Lookup(db.data, adds[Len(adds)][1]) = adds[Len(adds)][2]

\* C11: whatever failure save meets (the snapshot file cannot be created,
\* its bytes cannot be written, the log file cannot be reset), save returns
\* to its caller, the process goes on and the table is the one held before.
C11_SaveNonFatal ==
    (op = "save" /\ pc \in {"idle", "down"} /\ fault \in {"create", "flush", "reset_log"}) =>
        /\ ret = "ok" /\ pc = "idle"
        /\ db.data = pre

\* the call that has just returned is a get
GetReturns == pc = "idle" /\ pc' = "idle" /\ op' = "get"

\* C12: get(key) hands back what the table holds under key, which is the
\* value of the latest add of key since the log was reset, else the value in
\* the snapshot, else nothing; the table, enable_logging, the paths and
\* every file and directory are as they were.
C12_GetPure ==
    [][ GetReturns =>
            /\ db' = db /\ files' = files /\ dirs' = dirs
            /\ asked' \in Keys
            /\ LET T == ApplyAll(adds, SnapTable)
               IN  /\ T = db.data
                   /\ IF asked' \in DOMAIN T
                      THEN ret' = "some" /\ got' = T[asked']
                      ELSE ret' = "none" ]_vars

\* add(X, v1); add(X, v2); get(X) = v2
C12_Witness ==
    /\ op = "get" /\ pc = "idle" /\ ret = "some"
    /\ Len(adds) = 2
    /\ adds[1][1] = asked /\ adds[2][1] = asked
    /\ adds[1][2] # adds[2][2]
    /\ got = adds[2][2]

\* the step is an add that returns
AddReturns == Len(adds') = Len(adds) + 1

\* the step is a whole load_or_new or a whole replay
Recovers ==
    \/ pc = "down" /\ op' = "load"
    \/ pc = "idle" /\ pc' = "idle" /\ op' = "replay"

\* C13: a step that is not an add leaves the log file as it is or empties
\* it; load_or_new and replay change no file at all; and a store that
\* load_or_new has just handed back is handed back with the same table by a
\* second load_or_new.
C13_OnlyAddGrowsLog ==
    /\ [][ /\ ~AddReturns => (LogFile' = LogFile \/ LogFile' = <<>>)
           /\ Recovers => files' = files ]_vars
    /\ [](( Loaded /\ ret = "ok" /\ pc = "idle") =>
             \E r \in {load_or_new(dirs, files, DB_DIR, "none")} :
                 r.ok /\ r.files = files /\ r.db.data = db.data)

\* a restart over a snapshot and a log of two records
C13_Witness ==
    /\ Loaded /\ ret = "ok" /\ pc = "idle"
    /\ is_file(files, SnapPath)
    /\ Len(Records(LogFile, 1)) = 2
    /\ LogFile = EncAll(adds)

\* what load_or_new would hand back from the directory as it is now
Restart == load_or_new(dirs, files, DB_DIR, "none")

\* C14: when save has serialized the store (line 137) and has not yet reset
\* the log file (line 138), a process that stops there leaves a directory
\* from which load_or_new succeeds with the table held in memory by the save.
C14_CrashBetweenSteps ==
    pc = "save_log" =>
        \E r \in {Restart} : r.ok /\ r.db.data = db.data

InSave == pc \in {"save_ser", "save_log", "save_drop"}

\* C15: inside save, once the log file has been reset the snapshot file holds
\* the whole serialized store; and at every step of save the directory is one
\* from which load_or_new hands back the table held when save was called.
C15_SnapshotBeforeTruncate ==
    /\ pc = "save_drop" =>
          /\ is_file(files, db.db_snapshot)
          /\ files[db.db_snapshot] = EncDb(db)
    /\ InSave => \E r \in {Restart} : r.ok /\ r.db.data = db.data

\* C16: between completed calls enable_logging is TRUE, whichever way the
\* last replay returned, and the log file holds a record for every add made
\* since it was created or reset.
C16_LoggingRestored ==
    pc = "idle" =>
        /\ db.enable_logging
        /\ LogFile = EncAll(adds)

\* C17: every add that has returned since the log file was created or reset
\* is in the table a restart hands back, also when an earlier restart met a
\* torn record at the end of the log file and went on.
C17_DurableAdds ==
    (Loaded /\ SnapOk) =>
        /\ ret = "ok"
        /\ db.data = ApplyAll(adds, SnapTable)

\* C18: when save has returned, whether or not the snapshot bytes could be
\* written, load_or_new succeeds from the directory with the table held
\* before the save; and the log file is empty only if the snapshot file
\* decodes to that table.
C18_SaveNeverShrinks ==
    (op = "save" /\ pc = "idle") =>
        /\ \E r \in {Restart} : r.ok /\ r.db.data = pre
        /\ LogFile = <<>> =>
              /\ is_file(files, SnapPath) /\ DecDb(files[SnapPath]).ok
              /\ SnapTable = pre

\* C19: between completed calls and between runs, a directory that holds the
\* snapshot file holds the log file too, so it is a store directory; and the
\* store load_or_new hands back from it starts from the snapshot's table.
C19_SnapshotNeverIgnored ==
    /\ (pc \in {"idle", "down"} /\ is_file(files, SnapPath)) =>
          /\ is_file(files, LogPath)
          /\ is_db_dir(dirs, files, DB_DIR)
    /\ (Loaded /\ is_file(files, SnapPath)) =>
          /\ ret = "ok"
          /\ db.data = ApplyAll(Records(LogFile, 1), SnapTable)

\* a restart over a snapshot of two keys and an empty log
C19_Witness ==
    /\ Loaded /\ ret = "ok"
    /\ is_file(files, SnapPath) /\ is_file(files, LogPath)
    /\ LogFile = <<>>
    /\ Cardinality(DOMAIN SnapTable) = 2
    /\ db.data = SnapTable

\* the files whose existence or content the step changes
Written ==
    { q \in (DOMAIN files) \cup (DOMAIN files') :
        \/ q \notin DOMAIN files
        \/ q \notin DOMAIN files'
        \/ files[q] # files'[q] }

\* C20: the store load_or_new(d) hands back has dir = d, replay_log =
\* d/replay.log and db_snapshot = d/db.snapshot, also when the directory was
\* copied or moved after its snapshot was written; and the calls on the
\* store write no file outside d.
C20_BoundToDirectory ==
    /\ [](pc = "idle" =>
             /\ db.dir = home
             /\ db.replay_log = PathJoin(home, REPLAY_LOG)
             /\ db.db_snapshot = PathJoin(home, DB_SNAPSHOT))
    /\ [][ pc # "down" => \A q \in Written : PathDir(q) = home ]_vars

====
